---------------------------- MODULE Spec2Model ----------------------------
(***************************************************************************)
(* A state-machine model of the account, video and comment handlers of the *)
(* video-sharing backend: register and login with the token they issue,    *)
(* the access guard in front of the mutating routes, the ownership checks  *)
(* of the video and comment controllers and the two-write subscribe and    *)
(* unsubscribe handlers of the account controller, running against a       *)
(* document store whose updates are cast against the collection's schema   *)
(* before they are applied.                                                *)
(*                                                                         *)
(* A request occupies a slot from its arrival until its response has been  *)
(* read (Retire).  The guard and the handler's code up to its first await  *)
(* are one step; every await of a handler is a step boundary, so the store *)
(* operations of the requests in different slots interleave.               *)
(***************************************************************************)
EXTENDS Integers, FiniteSets, Sequences, TLC

VARIABLES
    accounts,       \* the Account collection: a set of documents
    accountsMade,   \* how many Account documents were ever created
    tokens,         \* the access tokens login has issued: what a client can present
    videos,         \* the Video collection
    videosMade,     \* how many Video documents were ever created
    comments,       \* the Comment collection
    commentsMade,   \* how many Comment documents were ever created
    req,            \* per slot: the request being served and its response
    last,           \* history: the subscribe/unsubscribe call that retired last
    now,            \* Date.now(): the clock, in milliseconds
    env             \* process.env: the configuration the process runs with

vars == <<accounts, accountsMade, tokens, videos, videosMade, comments,
          commentsMade, req, last, now, env>>

-----------------------------------------------------------------------------
(* Bounds of the model *)

MaxAccounts == 2
MaxVideos == 1
MaxComments == 1
MaxTicks == 3
MaxTokens == 2

AccountIds == 1..MaxAccounts
VideoIds == 1..MaxVideos
CommentIds == 1..MaxComments

\* register's inputs: usernames are unique keys, first names are free
Usernames == 1..MaxAccounts
Names == {"Ana", "Bob"}
Passwords == {"secret-1"}
Titles == {"t1", "t2"}

\* the request slots: two requests can be in flight together
Slots == {"r1", "r2"}

-----------------------------------------------------------------------------
(* Ids and their textual forms.  An ObjectId has one canonical text (lower  *)
(* case hex: what account.id and the token carry) and other texts the store *)
(* casts to the same ObjectId (upper case hex).  "invalid" is a text that   *)
(* ObjectId.isValid rejects.                                                *)

IdText(i) == [id |-> i, form |-> "lower"]

AccountParams == [id : AccountIds, form : {"lower", "upper"}]
VideoParams == [id : VideoIds, form : {"lower", "invalid"}]
CommentParams == [id : CommentIds, form : {"lower", "invalid"}]

NoParam == [id |-> 0, form |-> "none"]

\* mongoose.Types.ObjectId.isValid
isValid(p) == p.form # "invalid"

\* the store's cast of an id text to an ObjectId
castObjectId(p) == p.id

-----------------------------------------------------------------------------
(* Errors and the terminal responder *)

CustomError(message, status) ==
    [name |-> "CustomError", code |-> 0, status |-> status, message |-> message]

\* a failure of the store while serving a call: no status, no code
StoreError ==
    [name |-> "MongoNetworkError", code |-> 0, status |-> 0,
     message |-> "store unavailable"]

DuplicateKeyError ==
    [name |-> "MongoServerError", code |-> 11000, status |-> 0,
     message |-> "E11000 duplicate key"]

NoRes == [status |-> 0, success |-> FALSE, message |-> ""]

Json(status, success, message) ==
    [status |-> status, success |-> success, message |-> message]

\* a 200 whose body carries documents: {success: true, data} with the set of
\* the documents (none: an empty list, or null where one document is sent), or
\* the bare array getRandomVideos sends, which has no success member
Data(success, data) ==
    [status |-> 200, success |-> success, message |-> "", data |-> data]

customErrorHandler_NoDuplicateKey(err) ==
    LET customError ==
            IF err.name = "SyntaxError" THEN CustomError("Unexpected Syntax", 400)
            ELSE IF err.name = "ValidationError" THEN CustomError(err.message, 400)
            ELSE err
    IN  Json(IF customError.status # 0 THEN customError.status ELSE 500,
             FALSE, customError.message)

customErrorHandler_StatusFirst(err) ==
    LET customError ==
            IF err.status # 0 THEN err
            ELSE IF err.name = "SyntaxError" THEN CustomError("Unexpected Syntax", 400)
            ELSE IF err.name = "ValidationError" THEN CustomError(err.message, 400)
            ELSE IF err.code = 11000
                 THEN CustomError("Duplicate Key Found: Check Your Input", 400)
            ELSE err
    IN  Json(IF customError.status # 0 THEN customError.status ELSE 500,
             FALSE, customError.message)

customErrorHandler(err) ==
    LET customError ==
            IF err.name = "SyntaxError" THEN CustomError("Unexpected Syntax", 400)
            ELSE IF err.name = "ValidationError" THEN CustomError(err.message, 400)
            ELSE IF err.code = 11000
                 THEN CustomError("Duplicate Key Found: Check Your Input", 400)
            ELSE err
    IN  Json(IF customError.status # 0 THEN customError.status ELSE 500,
             FALSE, customError.message)

-----------------------------------------------------------------------------
(* The configuration, the token codec and the access guard.  A token is the *)
(* signed payload: the two members _sendToken embeds, the issue and expiry  *)
(* times in seconds that jwt.sign adds, and the key of the signature.       *)

\* the value of an environment variable is text: a sequence of digits here
RECURSIVE parseInt(_)
parseInt(digits) ==
    IF digits = <<>> THEN 0
    ELSE 10 * parseInt(SubSeq(digits, 1, Len(digits) - 1)) + digits[Len(digits)]

\* a .env of a development run with the members README's .env sets; the two
\* lifetimes are one second (JWT_EXPIRE counts seconds, JWT_COOKIE_EXPIRE
\* milliseconds) so that a token expires while the clock of the model runs;
\* and the configurations a run can start with
DevEnv ==
    [NODE_ENV |-> "development", JWT_SECRET_KEY |-> "server key",
     JWT_EXPIRE |-> <<1>>, JWT_COOKIE_EXPIRE |-> <<1, 0, 0, 0>>]

Envs == {[DevEnv EXCEPT !.NODE_ENV = e] : e \in {"development", "production"}}

\* a key the process does not hold
OtherKey == "another key"

\* jwt.sign(payload, secretOrPrivateKey, {expiresIn}) at the time given
sign(payload, secretOrPrivateKey, expiresIn, time) ==
    [id |-> payload.id, first_name |-> payload.first_name,
     iat |-> time \div 1000, exp |-> (time \div 1000) + expiresIn,
     key |-> secretOrPrivateKey]

NoErr == [name |-> "none", code |-> 0, status |-> 0, message |-> ""]

JsonWebTokenError(message) ==
    [name |-> "JsonWebTokenError", code |-> 0, status |-> 0, message |-> message]

TokenExpiredError ==
    [name |-> "TokenExpiredError", code |-> 0, status |-> 0, message |-> "jwt expired"]

NoAccount == [id |-> NoParam, first_name |-> ""]

verify_Decode(token, secretOrPublicKey, time) ==
    [err |-> NoErr, result |-> [id |-> token.id, first_name |-> token.first_name]]

verify_ExpiryFirst(token, secretOrPublicKey, time) ==
    IF time \div 1000 >= token.exp
    THEN [err |-> TokenExpiredError, result |-> NoAccount]
    ELSE IF token.key # secretOrPublicKey
    THEN [err |-> JsonWebTokenError("invalid signature"), result |-> NoAccount]
    ELSE [err |-> NoErr,
          result |-> [id |-> token.id, first_name |-> token.first_name]]

\* jwt.verify(token, secretOrPublicKey, callback): the signature is checked
\* first, then the expiry against the clock in seconds
verify(token, secretOrPublicKey, time) ==
    IF token.key # secretOrPublicKey
    THEN [err |-> JsonWebTokenError("invalid signature"), result |-> NoAccount]
    ELSE IF time \div 1000 >= token.exp
    THEN [err |-> TokenExpiredError, result |-> NoAccount]
    ELSE [err |-> NoErr,
          result |-> [id |-> token.id, first_name |-> token.first_name]]

NoToken == [id |-> NoParam, first_name |-> "", iat |-> 0, exp |-> 0, key |-> ""]

\* req.cookies.access_token: absent, a value cookie-parser parsed from a
\* "j:" cookie (an object), or a string
NoCookie == [kind |-> "absent", token |-> NoToken]
JsonCookie == [kind |-> "object", token |-> NoToken]
StringCookie(token) == [kind |-> "string", token |-> token]

\* the cookies a request can carry: none, a parsed one, a token login has
\* issued, or such a token signed again with a key the process does not hold
Cookies ==
    {NoCookie, JsonCookie}
    \cup {StringCookie(t) : t \in tokens}
    \cup {StringCookie([t EXCEPT !.key = OtherKey]) : t \in tokens}

\* what the guard leaves behind: the call of next it made (next() hands the
\* request to the route's handler, next(err) to the terminal responder) and
\* req.account
NoAccess == [next |-> "none", err |-> NoErr, account |-> NoAccount]

hasAccess_Decode(cookie) ==
    IF cookie.kind = "absent"
    THEN [next |-> "error", account |-> NoAccount,
          err |-> CustomError("Please provide a token or authenticate.", 401)]
    ELSE IF cookie.kind # "string"
    THEN [next |-> "error", account |-> NoAccount,
          err |-> CustomError("Invalid token format.", 400)]
    ELSE [next |-> "route", err |-> NoErr,
          account |-> verify_Decode(cookie.token, env.JWT_SECRET_KEY, now).result]

hasAccess_NoTypeCheck(cookie) ==
    IF cookie.kind = "absent"
    THEN [next |-> "error", account |-> NoAccount,
          err |-> CustomError("Please provide a token or authenticate.", 401)]
    ELSE LET v == verify(cookie.token, env.JWT_SECRET_KEY, now)
         IN  IF cookie.kind # "string"
             THEN [next |-> "error", account |-> NoAccount,
                   err |-> JsonWebTokenError("jwt must be a string")]
             ELSE IF v.err # NoErr
             THEN [next |-> "error", account |-> NoAccount, err |-> v.err]
             ELSE [next |-> "route", err |-> NoErr, account |-> v.result]

hasAccess_DropsFirstName(cookie) ==
    IF cookie.kind = "absent"
    THEN [next |-> "error", account |-> NoAccount,
          err |-> CustomError("Please provide a token or authenticate.", 401)]
    ELSE IF cookie.kind # "string"
    THEN [next |-> "error", account |-> NoAccount,
          err |-> CustomError("Invalid token format.", 400)]
    ELSE LET v == verify(cookie.token, env.JWT_SECRET_KEY, now)
         IN  IF v.err # NoErr
             THEN [next |-> "error", account |-> NoAccount, err |-> v.err]
             ELSE [next |-> "route", err |-> NoErr,
                   account |-> [id |-> v.result.id, first_name |-> ""]]

hasAccess_LooksUpAccount(cookie) ==
    IF cookie.kind = "absent"
    THEN [next |-> "error", account |-> NoAccount,
          err |-> CustomError("Please provide a token or authenticate.", 401)]
    ELSE IF cookie.kind # "string"
    THEN [next |-> "error", account |-> NoAccount,
          err |-> CustomError("Invalid token format.", 400)]
    ELSE LET v == verify(cookie.token, env.JWT_SECRET_KEY, now)
         IN  IF v.err # NoErr
             THEN [next |-> "error", account |-> NoAccount, err |-> v.err]
             ELSE IF \A d \in accounts : d._id # castObjectId(v.result.id)
             THEN [next |-> "error", account |-> NoAccount,
                   err |-> CustomError("User can't be found.", 404)]
             ELSE [next |-> "route", err |-> NoErr, account |-> v.result]

\* hasAccess: the cookie is read and checked, the token verified with the
\* configured key at the current time, the two members attached
hasAccess(cookie) ==
    IF cookie.kind = "absent"
    THEN [next |-> "error", account |-> NoAccount,
          err |-> CustomError("Please provide a token or authenticate.", 401)]
    ELSE IF cookie.kind # "string"
    THEN [next |-> "error", account |-> NoAccount,
          err |-> CustomError("Invalid token format.", 400)]
    ELSE LET v == verify(cookie.token, env.JWT_SECRET_KEY, now)
         IN  IF v.err # NoErr
             THEN [next |-> "error", account |-> NoAccount, err |-> v.err]
             ELSE [next |-> "route", err |-> NoErr, account |-> v.result]

-----------------------------------------------------------------------------
(* The document store.  A collection is a set of documents, each a record  *)
(* with an _id.  An update is cast against the schema of the collection    *)
(* first: under the default strict mode the paths the schema does not      *)
(* declare are removed from the update.                                    *)

AccountSchemaPaths_OneArray ==
    {"first_name", "last_name", "username", "email", "password", "role",
     "profile_image", "createdAt", "blocked", "is_email_verified",
     "subscribedUsers"}

\* the paths AccountSchema declares
AccountSchemaPaths ==
    {"first_name", "last_name", "username", "email", "password", "role",
     "profile_image", "createdAt", "blocked", "is_email_verified"}

\* the paths VideoSchema declares
VideoSchemaPaths ==
    {"account_id", "title", "description", "img_url", "video_url", "views",
     "tags", "likes", "dislikes", "comments_closed"}

Range(s) == {s[k] : k \in DOMAIN s}

RECURSIVE Without(_, _)
Without(s, x) ==
    IF s = <<>> THEN <<>>
    ELSE IF Head(s) = x THEN Without(Tail(s), x)
    ELSE <<Head(s)>> \o Without(Tail(s), x)

\* $addToSet on an array field
AddToSet(s, x) == IF x \in Range(s) THEN s ELSE Append(s, x)

\* $pull on an array field
Pull(s, x) == Without(s, x)

castUpdate_NotStrict(schemaPaths, fields) ==
    fields

\* the cast of an update: the paths that are not in the schema are dropped
castUpdate(schemaPaths, fields) ==
    [p \in (DOMAIN fields) \cap schemaPaths |-> fields[p]]

\* the update applied to one document
ApplyUpdate(doc, op, fields) ==
    [p \in DOMAIN doc |->
        IF p \in DOMAIN fields
        THEN CASE op = "$set" -> fields[p]
               [] op = "$addToSet" -> AddToSet(doc[p], fields[p])
               [] op = "$pull" -> Pull(doc[p], fields[p])
        ELSE doc[p]]

findById(coll, id) == {d \in coll : d._id = id}

findByIdAndUpdate_RawPush(coll, schemaPaths, id, op, fields) ==
    {IF d._id = id
     THEN [p \in DOMAIN d |->
            IF p \in DOMAIN fields
            THEN IF op = "$set" THEN fields[p]
                 ELSE IF op = "$pull" THEN Pull(d[p], fields[p])
                 ELSE Append(d[p], fields[p])
            ELSE d[p]]
     ELSE d
        : d \in coll}

\* Model.findByIdAndUpdate(id, {op: fields}): the collection afterwards
findByIdAndUpdate(coll, schemaPaths, id, op, fields) ==
    {IF d._id = id THEN ApplyUpdate(d, op, castUpdate(schemaPaths, fields)) ELSE d
        : d \in coll}

\* Model.findByIdAndDelete(id): the collection afterwards
findByIdAndDelete(coll, id) == {d \in coll : d._id # id}

-----------------------------------------------------------------------------
(* Account documents.  subscribedUsers and subscribers are the two arrays  *)
(* the subscribe handlers address; an array no update ever stored is empty. *)

\* a body member that is no string (absent, or a number): bcrypt rejects it
NotAString == "<not a string>"

\* what a helper returns when its catch has run: undefined
Undefined == <<"undefined">>

BcryptError(message) ==
    [name |-> "Error", code |-> 0, status |-> 0, message |-> message]

ValidationError(message) ==
    [name |-> "ValidationError", code |-> 0, status |-> 0, message |-> message]

\* CryptoLib._hashUserPassword: the hash, or after a failure of bcrypt the
\* catch calls next(err) itself and the helper returns undefined
hashUserPassword(password) ==
    IF password = NotAString
    THEN [next |-> TRUE, err |-> BcryptError("data and salt arguments required"),
          value |-> Undefined]
    ELSE [next |-> FALSE, err |-> NoErr, value |-> <<"bcrypt", password>>]

comparePassword_ThrowsOnMismatch(password, hashedPassword) ==
    IF password = NotAString \/ hashedPassword # <<"bcrypt", password>>
    THEN [next |-> TRUE, err |-> BcryptError("data and hash must be strings"),
          value |-> Undefined]
    ELSE [next |-> FALSE, err |-> NoErr, value |-> TRUE]

\* CryptoLib._comparePassword: the result of bcrypt.compare, or after a
\* failure of bcrypt next(err) and undefined
comparePassword(password, hashedPassword) ==
    IF password = NotAString
    THEN [next |-> TRUE, err |-> BcryptError("data and hash must be strings"),
          value |-> Undefined]
    ELSE [next |-> FALSE, err |-> NoErr,
          value |-> hashedPassword = <<"bcrypt", password>>]

\* the document Account.create stores for register's five fields
NewAccount(id, username, first_name, password) ==
    [_id |-> id, username |-> username, first_name |-> first_name,
     password |-> hashUserPassword(password).value,
     subscribedUsers |-> <<>>, subscribers |-> <<>>]

\* a text stored in the password path as it came, where a digest is
\* <<"bcrypt", text>>
Text(password) == <<"text", password>>

\* the bodies of an account update that sets a password
PasswordBodies == {[password |-> Text(p)] : p \in Passwords}

\* the bodies an account update is tried with otherwise: a new first name, or
\* one of the two arrays set to a list holding one account id
AccountBodies ==
    {[first_name |-> n] : n \in Names}
    \cup {[subscribers |-> <<i>>] : i \in AccountIds}
    \cup {[subscribedUsers |-> <<i>>] : i \in AccountIds}

NoBody == <<>>

-----------------------------------------------------------------------------
(* Request slots *)

\* a slot: the request, the cookie it carried, what the guard left behind and
\* when, whether the token's account was stored then, the calls of next(err),
\* the error of the first of them and the responses the handler sent itself
Idle ==
    [pc |-> "idle", h |-> "none", auth |-> 0, param |-> NoParam, body |-> NoBody,
     writes |-> 0, raced |-> FALSE, res |-> NoRes,
     cookie |-> NoCookie, access |-> NoAccess, at |-> 0, known |-> FALSE,
     nexts |-> 0, sent |-> 0, thrown |-> NoErr,
     path |-> <<>>]

NoCall == [h |-> "none", auth |-> 0, target |-> 0, writes |-> 0, status |-> 0]

\* a request enters a slot
Begin(h, auth, param, body, pc) ==
    [pc |-> pc, h |-> h, auth |-> auth, param |-> param, body |-> body,
     writes |-> 0, raced |-> FALSE, res |-> NoRes,
     cookie |-> NoCookie, access |-> NoAccess, at |-> now, known |-> FALSE,
     nexts |-> 0, sent |-> 0, thrown |-> NoErr,
     path |-> <<>>]

\* a request to a guarded route: hasAccess runs first, req.account.id is what
\* the handler reads as the authenticated account id
Guarded(h, cookie, param, body, pc) ==
    LET access == hasAccess(cookie)
    IN  [Begin(h, castObjectId(access.account.id), param, body, pc)
            EXCEPT !.cookie = cookie, !.access = access,
                   !.known = \E d \in accounts :
                                d._id = castObjectId(cookie.token.id)]

\* the route's handler is called only when the guard called next()
Admitted(slot) == slot.access.next = "route"

\* res.status(..).json(..) in a handler: the response the client gets is the
\* first one sent
Respond(slot, res) ==
    [slot EXCEPT !.pc = "done", !.sent = @ + 1,
                 !.res = IF slot.res = NoRes THEN res ELSE slot.res]

\* next(err): the terminal responder sends the error's response
NextErr(slot, err) ==
    [slot EXCEPT !.pc = "done", !.nexts = @ + 1,
                 !.thrown = IF slot.nexts = 0 THEN err ELSE slot.thrown,
                 !.res = IF slot.res = NoRes THEN customErrorHandler(err)
                         ELSE slot.res]

\* a rejection of a promise nothing awaits: neither next(err) nor a response,
\* the request stays open
Abandon(slot) == [slot EXCEPT !.pc = "abandoned"]

InFlight(r) == req[r].pc \notin {"idle", "done"}

\* a write lands while another request stands between its two writes
MarkRaced(r, rq) ==
    [s \in Slots |->
        IF s # r /\ rq[s].pc = "writeTarget" THEN [rq[s] EXCEPT !.raced = TRUE]
        ELSE rq[s]]

-----------------------------------------------------------------------------
(* Account controller: register and login *)

\* register: hash, Account.create, save, 201
register(r) ==
    /\ req[r].pc = "idle"
    /\ \E username \in Usernames, first_name \in Names,
          password \in Passwords \cup {NotAString}, storeOk \in BOOLEAN :
        LET rq == Begin("register", 0, NoParam,
                        [username |-> username, password |-> password], "create")
            hashedPassword == hashUserPassword(password)
        IN  IF hashedPassword.next
            THEN \* the helper has called next(err); the handler goes on with
                 \* undefined, Account.create rejects the missing password and
                 \* the handler's catch calls next(err) too
                 /\ req' = [req EXCEPT ![r] =
                        NextErr(NextErr(rq, hashedPassword.err),
                            ValidationError("Please provide a password value."))]
                 /\ UNCHANGED <<accounts, accountsMade>>
            ELSE IF ~storeOk
            THEN /\ req' = [req EXCEPT ![r] = NextErr(rq, StoreError)]
                 /\ UNCHANGED <<accounts, accountsMade>>
            ELSE IF \E d \in accounts : d.username = username
            THEN /\ req' = [req EXCEPT ![r] = NextErr(rq, DuplicateKeyError)]
                 /\ UNCHANGED <<accounts, accountsMade>>
            ELSE /\ accountsMade < MaxAccounts
                 /\ accountsMade' = accountsMade + 1
                 /\ accounts' = accounts \cup
                        {NewAccount(accountsMade + 1, username, first_name, password)}
                 /\ req' = [req EXCEPT ![r] =
                        Respond([rq EXCEPT !.writes = 1], Json(201, TRUE, "created"))]
    /\ UNCHANGED <<tokens, videos, videosMade, comments, commentsMade, last, now, env>>

\* JWTLib._sendToken: the token is signed and sent in the cookie and the body
sendToken_AlwaysSecure(account) ==
    LET payload == [id |-> IdText(account._id), first_name |-> account.first_name]
        token == sign(payload, env.JWT_SECRET_KEY, parseInt(env.JWT_EXPIRE), now)
    IN  [status |-> 200, success |-> TRUE, message |-> "",
         access_token |-> token, data |-> payload,
         cookie |-> [name |-> "access_token", value |-> token, httpOnly |-> TRUE,
                     expires |-> now + parseInt(env.JWT_COOKIE_EXPIRE),
                     secure |-> TRUE]]

\* the 200 of _sendToken (its body has no message member)
sendToken(account) ==
    LET payload == [id |-> IdText(account._id), first_name |-> account.first_name]
        token == sign(payload, env.JWT_SECRET_KEY, parseInt(env.JWT_EXPIRE), now)
    IN  [status |-> 200, success |-> TRUE, message |-> "",
         access_token |-> token, data |-> payload,
         cookie |-> [name |-> "access_token", value |-> token, httpOnly |-> TRUE,
                     expires |-> now + parseInt(env.JWT_COOKIE_EXPIRE),
                     secure |-> IF env.NODE_ENV = "development" THEN FALSE
                                ELSE TRUE]]

\* jwt.sign throws when it is given no key ("secretOrPrivateKey must have a
\* value"): _sendToken, an async function, then returns a rejected promise
sendTokenRejects == env.JWT_SECRET_KEY = ""

\* login: the account is looked up by its e-mail or username (both unique
\* keys; the model keeps one), the password compared, the token sent by
\* _sendToken, whose promise the handler neither awaits nor returns
login(r) ==
    /\ req[r].pc = "idle"
    /\ \E emailOrUsername \in Usernames \cup {0},
          password \in Passwords \cup {"", "wrong", NotAString},
          storeOk \in BOOLEAN :
        LET rq == Begin("login", 0, NoParam,
                        [emailOrUsername |-> emailOrUsername,
                         password |-> password], "findOne")
            found == {d \in accounts : d.username = emailOrUsername}
        IN  IF emailOrUsername = 0
            THEN /\ req' = [req EXCEPT ![r] =
                        NextErr(rq, CustomError("Please provide a value.", 400))]
                 /\ UNCHANGED tokens
            ELSE IF password = ""
            THEN /\ req' = [req EXCEPT ![r] =
                        NextErr(rq, CustomError("Please provide a password.", 400))]
                 /\ UNCHANGED tokens
            ELSE IF ~storeOk
            THEN /\ req' = [req EXCEPT ![r] = NextErr(rq, StoreError)]
                 /\ UNCHANGED tokens
            ELSE IF found = {}
            THEN /\ req' = [req EXCEPT ![r] =
                        NextErr(rq, CustomError("User can't be found.", 404))]
                 /\ UNCHANGED tokens
            ELSE LET account == CHOOSE d \in found : TRUE
                     comparedPasswords == comparePassword(password, account.password)
                 IN  IF comparedPasswords.next
                     THEN \* the helper has called next(err) and returned
                          \* undefined: the handler calls next once more
                          /\ req' = [req EXCEPT ![r] =
                                NextErr(NextErr(rq, comparedPasswords.err),
                                    CustomError("Your password is not correct.", 400))]
                          /\ UNCHANGED tokens
                     ELSE IF ~comparedPasswords.value
                     THEN /\ req' = [req EXCEPT ![r] = NextErr(rq,
                                CustomError("Your password is not correct.", 400))]
                          /\ UNCHANGED tokens
                     ELSE IF sendTokenRejects
                     THEN /\ req' = [req EXCEPT ![r] =
                                Abandon([rq EXCEPT !.auth = account._id])]
                          /\ UNCHANGED tokens
                     ELSE /\ Cardinality(tokens \cup {sendToken(account).access_token})
                                <= MaxTokens
                          /\ tokens' = tokens \cup {sendToken(account).access_token}
                          /\ req' = [req EXCEPT ![r] = Respond(
                                [rq EXCEPT !.auth = account._id],
                                sendToken(account))]
    /\ UNCHANGED <<accounts, accountsMade, videos, videosMade, comments,
                   commentsMade, last, now, env>>

-----------------------------------------------------------------------------
(* Account controller: update and delete of the own account *)

notOwnAccount_Never(authAccountId, accountId) == FALSE

\* the check of updateAccountInformations and deleteSingleAccount: the id text
\* of the token against the id text of the path
notOwnAccount(authAccountId, accountId) == authAccountId # accountId

\* updateAccountInformations up to its first await, with a body of the set
updateAccountWith(r, bodies) ==
    /\ req[r].pc = "idle"
    /\ \E cookie \in Cookies, param \in AccountParams, body \in bodies :
        LET rq == Guarded("updateAccount", cookie, param, body, "update")
        IN  req' = [req EXCEPT ![r] =
                IF ~Admitted(rq) THEN NextErr(rq, rq.access.err)
                ELSE IF notOwnAccount(rq.access.account.id, param)
                THEN NextErr(rq, CustomError("You cannot update this channel", 500))
                ELSE rq]
    /\ UNCHANGED <<accounts, accountsMade, tokens, videos, videosMade, comments,
                   commentsMade, last, now, env>>

updateAccountInformations(r) == updateAccountWith(r, AccountBodies)

\* an account update whose body has a password member
updateAccountPassword(r) == updateAccountWith(r, PasswordBodies)

\* Account.findByIdAndUpdate(updateAccountId, {$set: req.body}), save, 200
updateAccountWrite(r) ==
    /\ req[r].pc = "update"
    /\ \E storeOk \in BOOLEAN :
        IF storeOk
        THEN /\ accounts' = findByIdAndUpdate(accounts, AccountSchemaPaths,
                    castObjectId(req[r].param), "$set", req[r].body)
             /\ req' = [MarkRaced(r, req) EXCEPT ![r] =
                    Respond([req[r] EXCEPT !.writes = 1], Json(200, TRUE, "updated"))]
        ELSE /\ req' = [req EXCEPT ![r] = NextErr(req[r], StoreError)]
             /\ UNCHANGED accounts
    /\ UNCHANGED <<accountsMade, tokens, videos, videosMade, comments,
                   commentsMade, last, now, env>>

\* deleteSingleAccount up to its await
deleteSingleAccount(r) ==
    /\ req[r].pc = "idle"
    /\ \E cookie \in Cookies, param \in AccountParams :
        LET rq == Guarded("deleteAccount", cookie, param, NoBody, "delete")
        IN  req' = [req EXCEPT ![r] =
                IF ~Admitted(rq) THEN NextErr(rq, rq.access.err)
                ELSE IF notOwnAccount(rq.access.account.id, param)
                THEN NextErr(rq, CustomError("You cannot delete this channel.", 500))
                ELSE rq]
    /\ UNCHANGED <<accounts, accountsMade, tokens, videos, videosMade, comments,
                   commentsMade, last, now, env>>

\* Account.findByIdAndDelete(deleteAccountId), 200
deleteAccountWrite(r) ==
    /\ req[r].pc = "delete"
    /\ \E storeOk \in BOOLEAN :
        IF storeOk
        THEN /\ accounts' = findByIdAndDelete(accounts, castObjectId(req[r].param))
             /\ req' = [MarkRaced(r, req) EXCEPT ![r] =
                    Respond([req[r] EXCEPT !.writes = 1], Json(200, TRUE, "deleted"))]
        ELSE /\ req' = [req EXCEPT ![r] = NextErr(req[r], StoreError)]
             /\ UNCHANGED accounts
    /\ UNCHANGED <<accountsMade, tokens, videos, videosMade, comments,
                   commentsMade, last, now, env>>

-----------------------------------------------------------------------------
(* Account controller: subscribe and unsubscribe.  Both compare the two id  *)
(* texts, then update the caller's document, then the target's document.    *)

\* the self check of subscribeAccount and unsubscribeAccount
notSelf(authAccountId, paramAccountId) == authAccountId # paramAccountId

\* the first update: the array of the authenticated account
writeAuthAccount(coll, h, auth, param) ==
    findByIdAndUpdate(coll, AccountSchemaPaths, auth,
        IF h = "subscribe" THEN "$addToSet" ELSE "$pull",
        [subscribedUsers |-> castObjectId(param)])

\* the second update: the array of the account named in the path
writeTargetAccount(coll, h, auth, param) ==
    findByIdAndUpdate(coll, AccountSchemaPaths, castObjectId(param),
        IF h = "subscribe" THEN "$addToSet" ELSE "$pull",
        [subscribers |-> auth])

\* both updates of one call, neither failing
subscribeWrites(coll, h, auth, param) ==
    writeTargetAccount(writeAuthAccount(coll, h, auth, param), h, auth, param)

selfMessage(h) ==
    IF h = "subscribe" THEN "You cannot subscribe to yourself."
    ELSE "You cannot unsubscribe to yourself."

\* subscribeAccount / unsubscribeAccount up to the first await
subscribeAccount(r) ==
    /\ req[r].pc = "idle"
    /\ \E h \in {"subscribe", "unsubscribe"}, cookie \in Cookies,
          param \in AccountParams :
        LET rq == Guarded(h, cookie, param, NoBody, "writeAuth")
        IN  req' = [req EXCEPT ![r] =
                IF ~Admitted(rq) THEN NextErr(rq, rq.access.err)
                ELSE IF notSelf(rq.access.account.id, param) THEN rq
                ELSE NextErr(rq, CustomError(selfMessage(h), 400))]
    /\ UNCHANGED <<accounts, accountsMade, tokens, videos, videosMade, comments,
                   commentsMade, last, now, env>>

\* the first findByIdAndUpdate; a failure goes to the catch
subscribeWriteAuth(r) ==
    /\ req[r].pc = "writeAuth"
    /\ \E storeOk \in BOOLEAN :
        IF storeOk
        THEN /\ accounts' = writeAuthAccount(accounts, req[r].h, req[r].auth,
                                             req[r].param)
             /\ req' = [MarkRaced(r, req) EXCEPT ![r] =
                    [req[r] EXCEPT !.pc = "writeTarget", !.writes = 1]]
        ELSE /\ req' = [req EXCEPT ![r] = NextErr(req[r], StoreError)]
             /\ UNCHANGED accounts
    /\ UNCHANGED <<accountsMade, tokens, videos, videosMade, comments,
                   commentsMade, last, now, env>>

\* the second findByIdAndUpdate and the 200; a failure goes to the catch
subscribeWriteTarget(r) ==
    /\ req[r].pc = "writeTarget"
    /\ \E storeOk \in BOOLEAN :
        IF storeOk
        THEN /\ accounts' = writeTargetAccount(accounts, req[r].h, req[r].auth,
                                               req[r].param)
             /\ req' = [MarkRaced(r, req) EXCEPT ![r] =
                    Respond([req[r] EXCEPT !.writes = 2],
                            Json(200, TRUE, "You have been (un)subscribed."))]
        ELSE /\ req' = [req EXCEPT ![r] = NextErr(req[r], StoreError)]
             /\ UNCHANGED accounts
    /\ UNCHANGED <<accountsMade, tokens, videos, videosMade, comments,
                   commentsMade, last, now, env>>

-----------------------------------------------------------------------------
(* Video controller *)

\* the document Video.create stores
NewVideo(id, account_id, title) ==
    [_id |-> id, account_id |-> account_id, title |-> title]

\* the bodies a video update is tried with: a new title, or an account_id
VideoBodies ==
    {[title |-> t] : t \in Titles} \cup {[account_id |-> i] : i \in AccountIds}

isVideoOwner_Anyone(auth_account_id, video_account_id) == TRUE

\* the ownership check of updateSingleVideo and deleteSingleVideo
isVideoOwner(auth_account_id, video_account_id) ==
    auth_account_id = video_account_id

\* addNewVideo: Video.create with the caller as account_id, 201 (the body
\* holds a message and the video)
addNewVideo(r) ==
    /\ req[r].pc = "idle"
    /\ \E cookie \in Cookies, title \in Titles, storeOk \in BOOLEAN :
        LET rq == Guarded("addVideo", cookie, NoParam, [title |-> title], "create")
            auth == rq.auth
        IN  IF ~Admitted(rq)
            THEN /\ req' = [req EXCEPT ![r] = NextErr(rq, rq.access.err)]
                 /\ UNCHANGED <<videos, videosMade>>
            ELSE IF ~storeOk
            THEN /\ req' = [req EXCEPT ![r] = NextErr(rq, StoreError)]
                 /\ UNCHANGED <<videos, videosMade>>
            ELSE /\ videosMade < MaxVideos
                 /\ videosMade' = videosMade + 1
                 /\ videos' = videos \cup {NewVideo(videosMade + 1, auth, title)}
                 /\ req' = [req EXCEPT ![r] = Respond([rq EXCEPT !.writes = 1],
                        Json(201, TRUE, "Your new video has been generated!"))]
    /\ UNCHANGED <<accounts, accountsMade, tokens, comments, commentsMade, last, now, env>>

\* updateSingleVideo / deleteSingleVideo up to the first await: the id text
mutateVideo(r) ==
    /\ req[r].pc = "idle"
    /\ \E h \in {"updateVideo", "deleteVideo"}, cookie \in Cookies,
          param \in VideoParams, body \in VideoBodies :
        LET rq == Guarded(h, cookie, param,
                          IF h = "updateVideo" THEN body ELSE NoBody, "findVideo")
        IN  req' = [req EXCEPT ![r] =
                IF ~Admitted(rq) THEN NextErr(rq, rq.access.err)
                ELSE IF isValid(param) THEN rq
                ELSE NextErr(rq, CustomError("Please provide a verified id.", 400))]
    /\ UNCHANGED <<accounts, accountsMade, tokens, videos, videosMade, comments,
                   commentsMade, last, now, env>>

notOwnerMessage(h) ==
    IF h = "updateVideo" THEN "You can update only your account"
    ELSE "You can delete only your video"

\* Video.findById, then the existence check, then the ownership check
findVideo(r) ==
    /\ req[r].pc = "findVideo"
    /\ \E storeOk \in BOOLEAN :
        LET video == findById(videos, castObjectId(req[r].param))
        IN  req' = [req EXCEPT ![r] =
                IF ~storeOk THEN NextErr(req[r], StoreError)
                ELSE IF video = {}
                THEN NextErr(req[r], CustomError(
                        "The video you are looking for could not be found.", 404))
                ELSE IF isVideoOwner(req[r].auth,
                                     (CHOOSE v \in video : TRUE).account_id)
                THEN [req[r] EXCEPT !.pc = "writeVideo"]
                ELSE NextErr(req[r], CustomError(notOwnerMessage(req[r].h), 400))]
    /\ UNCHANGED <<accounts, accountsMade, tokens, videos, videosMade, comments,
                   commentsMade, last, now, env>>

\* Video.findByIdAndUpdate(videoId, {$set: req.body}) and 200 with the updated
\* video (null when nothing is stored under the id), or findByIdAndDelete and
\* 200
writeVideo(r) ==
    /\ req[r].pc = "writeVideo"
    /\ \E storeOk \in BOOLEAN :
        IF storeOk
        THEN /\ videos' =
                    IF req[r].h = "updateVideo"
                    THEN findByIdAndUpdate(videos, VideoSchemaPaths,
                            castObjectId(req[r].param), "$set", req[r].body)
                    ELSE findByIdAndDelete(videos, castObjectId(req[r].param))
             /\ req' = [req EXCEPT ![r] = Respond([req[r] EXCEPT !.writes = 1],
                    IF req[r].h = "updateVideo"
                    THEN Data(TRUE, findById(videos', castObjectId(req[r].param)))
                    ELSE Json(200, TRUE, "Your video has been deleted."))]
        ELSE /\ req' = [req EXCEPT ![r] = NextErr(req[r], StoreError)]
             /\ UNCHANGED videos
    /\ UNCHANGED <<accounts, accountsMade, tokens, videosMade, comments,
                   commentsMade, last, now, env>>

-----------------------------------------------------------------------------
(* Comment controller *)

\* the document Comment.create stores
NewComment(id, account_id, video_id) ==
    [_id |-> id, account_id |-> account_id, video_id |-> video_id, edited |-> FALSE]

isCommentOwner_Anyone(comment_account_id, auth_account_id) == TRUE

\* the ownership check of deleteComment
isCommentOwner(comment_account_id, auth_account_id) ==
    comment_account_id = auth_account_id

\* addNewComment: the video id text and the description are checked, then
\* Comment.create, save, 200
addNewComment(r) ==
    /\ req[r].pc = "idle"
    /\ \E cookie \in Cookies, param \in VideoParams, description \in {"", "text"},
          storeOk \in BOOLEAN :
        LET rq == Guarded("addComment", cookie, param,
                          [description |-> description], "create")
            auth == rq.auth
        IN  IF ~Admitted(rq)
            THEN /\ req' = [req EXCEPT ![r] = NextErr(rq, rq.access.err)]
                 /\ UNCHANGED <<comments, commentsMade>>
            ELSE IF ~isValid(param)
            THEN /\ req' = [req EXCEPT ![r] = NextErr(rq,
                        CustomError("Please provide a verified video id", 400))]
                 /\ UNCHANGED <<comments, commentsMade>>
            ELSE IF description = ""
            THEN /\ req' = [req EXCEPT ![r] = NextErr(rq,
                        CustomError("Please provide a description", 400))]
                 /\ UNCHANGED <<comments, commentsMade>>
            ELSE IF ~storeOk
            THEN /\ req' = [req EXCEPT ![r] = NextErr(rq, StoreError)]
                 /\ UNCHANGED <<comments, commentsMade>>
            ELSE /\ commentsMade < MaxComments
                 /\ commentsMade' = commentsMade + 1
                 /\ comments' = comments \cup
                        {NewComment(commentsMade + 1, auth, castObjectId(param))}
                 /\ req' = [req EXCEPT ![r] = Respond([rq EXCEPT !.writes = 1],
                        Json(200, TRUE, "comment"))]
    /\ UNCHANGED <<accounts, accountsMade, tokens, videos, videosMade, last, now, env>>

\* deleteComment up to the first await: the id text
deleteComment(r) ==
    /\ req[r].pc = "idle"
    /\ \E cookie \in Cookies, param \in CommentParams :
        LET rq == Guarded("deleteComment", cookie, param, NoBody, "findComment")
        IN  req' = [req EXCEPT ![r] =
                IF ~Admitted(rq) THEN NextErr(rq, rq.access.err)
                ELSE IF isValid(param) THEN rq
                ELSE NextErr(rq,
                        CustomError("Please provide a verified comment id.", 400))]
    /\ UNCHANGED <<accounts, accountsMade, tokens, videos, videosMade, comments,
                   commentsMade, last, now, env>>

\* Comment.findById, then the existence check, then the ownership check; both
\* answers are sent by the handler itself
findComment(r) ==
    /\ req[r].pc = "findComment"
    /\ \E storeOk \in BOOLEAN :
        LET comment == findById(comments, castObjectId(req[r].param))
        IN  req' = [req EXCEPT ![r] =
                IF ~storeOk THEN NextErr(req[r], StoreError)
                ELSE IF comment = {}
                THEN Respond(req[r], Json(200, TRUE, "Comment couldn't be find."))
                ELSE IF isCommentOwner((CHOOSE c \in comment : TRUE).account_id,
                                       req[r].auth)
                THEN [req[r] EXCEPT !.pc = "deleteComment"]
                ELSE Respond(req[r],
                        Json(400, FALSE, "You cannot delete this comment."))]
    /\ UNCHANGED <<accounts, accountsMade, tokens, videos, videosMade, comments,
                   commentsMade, last, now, env>>

\* Comment.findByIdAndDelete(comment_id), 200
removeComment(r) ==
    /\ req[r].pc = "deleteComment"
    /\ \E storeOk \in BOOLEAN :
        IF storeOk
        THEN /\ comments' = findByIdAndDelete(comments, castObjectId(req[r].param))
             /\ req' = [req EXCEPT ![r] = Respond([req[r] EXCEPT !.writes = 1],
                    Json(200, TRUE, "Your comment has been deleted."))]
        ELSE /\ req' = [req EXCEPT ![r] = NextErr(req[r], StoreError)]
             /\ UNCHANGED comments
    /\ UNCHANGED <<accounts, accountsMade, tokens, videos, videosMade,
                   commentsMade, last, now, env>>

-----------------------------------------------------------------------------
(* The GET routes of the video router.  The path of a request below        *)
(* /api/video is its list of segments; a segment is a text: a word, or the  *)
(* text of an id.                                                           *)

Word(w) == [id |-> 0, form |-> w]

\* a segment of a route's pattern: a literal, or a named parameter
Literal(w) == [param |-> FALSE, segment |-> Word(w)]
Parameter == [param |-> TRUE, segment |-> NoParam]

\* the GET routes in the order videoRouter registers them
videoRouterGet ==
    <<[pattern |-> <<Parameter>>, handler |-> "getSingleVideo"],
      [pattern |-> <<Literal("find"), Parameter>>, handler |-> "getVideosByAccount"],
      [pattern |-> <<Literal("find"), Literal("random")>>,
       handler |-> "getRandomVideos"]>>

\* a pattern matches a path of its length whose segments are its literals
matches(pattern, path) ==
    /\ Len(pattern) = Len(path)
    /\ \A i \in 1..Len(pattern) :
        pattern[i].param \/ pattern[i].segment = path[i]

\* Express hands the request to the first registered route that matches
dispatch(routes, path) ==
    LET hits == {i \in DOMAIN routes : matches(routes[i].pattern, path)}
    IN  IF hits = {} THEN "none"
        ELSE routes[CHOOSE i \in hits : \A j \in hits : i <= j].handler

\* the paths GET requests come with
GetPaths ==
    {<<p>> : p \in VideoParams}
    \cup {<<Word("find"), p>> : p \in AccountParams \cup {Word("random")}}

\* the cast of a query's account_id to the ObjectId of the schema fails for a
\* text that is no id
CastError ==
    [name |-> "CastError", code |-> 0, status |-> 0,
     message |-> "Cast to ObjectId failed"]

castable(p) == p.form \in {"lower", "upper"}

\* getSingleVideo: the id is validated, the video looked up, 200 with it
getSingleVideo(rq, storeOk) ==
    LET videoId == rq.path[1]
    IN  IF ~isValid(videoId)
        THEN NextErr(rq, CustomError("Please provide a verified ID", 404))
        ELSE IF ~storeOk THEN NextErr(rq, StoreError)
        ELSE IF findById(videos, castObjectId(videoId)) = {}
        THEN NextErr(rq, CustomError(
                "The video you are looking for could not be found.", 404))
        ELSE Respond(rq, Data(TRUE, findById(videos, castObjectId(videoId))))

\* getVideosByAccount: Video.find({account_id: req.params.accountId})
getVideosByAccount(rq, storeOk) ==
    LET account_id == rq.path[2]
    IN  IF ~castable(account_id) THEN NextErr(rq, CastError)
        ELSE IF ~storeOk THEN NextErr(rq, StoreError)
        ELSE Respond(rq, Data(TRUE,
                {v \in videos : v.account_id = castObjectId(account_id)}))

\* getRandomVideos: a sample of up to 40 stored videos, which is all of them
\* here, sent as the body itself
getRandomVideos(rq, storeOk) ==
    IF ~storeOk THEN NextErr(rq, StoreError)
    ELSE Respond(rq, Data(FALSE, videos))

\* a GET request below /api/video
getVideoRoute(r) ==
    /\ req[r].pc = "idle"
    /\ \E path \in GetPaths, storeOk \in BOOLEAN :
        LET handler == dispatch(videoRouterGet, path)
            rq == [Begin(handler, 0, NoParam, NoBody, "find") EXCEPT !.path = path]
        IN  req' = [req EXCEPT ![r] =
                IF handler = "getSingleVideo" THEN getSingleVideo(rq, storeOk)
                ELSE IF handler = "getVideosByAccount"
                THEN getVideosByAccount(rq, storeOk)
                ELSE getRandomVideos(rq, storeOk)]
    /\ UNCHANGED <<accounts, accountsMade, tokens, videos, videosMade, comments,
                   commentsMade, last, now, env>>

-----------------------------------------------------------------------------
(* The terminal responder on its own *)

\* the error values next(err) is called with: the names, codes and statuses
\* of the errors of the handlers, of the guard and of the libraries (the body
\* parser's SyntaxError carries status 400, a CustomError the status it was
\* made with, the errors of mongoose, bcrypt and jsonwebtoken none)
ErrorNames ==
    {"SyntaxError", "ValidationError", "MongoServerError", "MongoNetworkError",
     "CustomError", "Error", "JsonWebTokenError", "TokenExpiredError"}

ErrorValues ==
    [name : ErrorNames, code : {0, 11000}, status : {0, 400, 401, 404, 500},
     message : {"m1", "m2"}]

\* some middleware or handler of a request calls next(err)
respondToError(r) ==
    /\ req[r].pc = "idle"
    /\ \E err \in ErrorValues :
        req' = [req EXCEPT ![r] =
                    NextErr(Begin("any", 0, NoParam, NoBody, "route"), err)]
    /\ UNCHANGED <<accounts, accountsMade, tokens, videos, videosMade, comments,
                   commentsMade, last, now, env>>

-----------------------------------------------------------------------------
(* The end of a request *)

\* the client has read the response: the slot is free again
Retire(r) ==
    /\ req[r].pc = "done"
    /\ req' = [req EXCEPT ![r] = Idle]
    /\ UNCHANGED <<accounts, accountsMade, tokens, videos, videosMade, comments,
                   commentsMade, last, now, env>>

\* the same, and the history keeps the subscribe/unsubscribe call that ended
RetireRecorded(r) ==
    /\ req[r].pc = "done"
    /\ req' = [req EXCEPT ![r] = Idle]
    /\ last' = IF req[r].h \in {"subscribe", "unsubscribe"}
               THEN [h |-> req[r].h, auth |-> req[r].auth,
                     target |-> castObjectId(req[r].param),
                     writes |-> req[r].writes, status |-> req[r].res.status]
               ELSE NoCall
    /\ UNCHANGED <<accounts, accountsMade, tokens, videos, videosMade, comments,
                   commentsMade, now, env>>

\* the clock advances by half a second
Tick ==
    /\ now < 500 * MaxTicks
    /\ now' = now + 500
    /\ UNCHANGED <<accounts, accountsMade, tokens, videos, videosMade, comments,
                   commentsMade, req, last, env>>

-----------------------------------------------------------------------------
(* Specifications *)

\* the account routes, one request at a time, from the empty store
InitAccount ==
    /\ accounts = {}
    /\ accountsMade = 0
    /\ tokens = {}
    /\ videos = {}
    /\ videosMade = 0
    /\ comments = {}
    /\ commentsMade = 0
    /\ req = [s \in Slots |-> Idle]
    /\ last = NoCall
    /\ now = 0
    /\ env = DevEnv

NextAccount ==
    \E r \in {"r1"} :
        \/ register(r)
        \/ login(r)
        \/ updateAccountInformations(r)
        \/ updateAccountWrite(r)
        \/ deleteSingleAccount(r)
        \/ deleteAccountWrite(r)
        \/ subscribeAccount(r)
        \/ subscribeWriteAuth(r)
        \/ subscribeWriteTarget(r)
        \/ Retire(r)

SpecAccount == InitAccount /\ [][NextAccount]_vars

\* a store the account routes can have produced: every id was registered and
\* logged in, some accounts were deleted since
RegisteredAccounts(existing) ==
    {NewAccount(i, i, "Ana", "secret-1") : i \in existing}

\* the tokens their logins at time 0 issued under the development .env
IssuedTokens(ids) ==
    {sign([id |-> IdText(i), first_name |-> "Ana"], DevEnv.JWT_SECRET_KEY,
          parseInt(DevEnv.JWT_EXPIRE), 0) : i \in ids}

InitRegistered ==
    /\ \E existing \in SUBSET AccountIds : accounts = RegisteredAccounts(existing)
    /\ accountsMade = MaxAccounts
    /\ tokens = IssuedTokens(AccountIds)
    /\ videos = {}
    /\ videosMade = 0
    /\ comments = {}
    /\ commentsMade = 0
    /\ req = [s \in Slots |-> Idle]
    /\ last = NoCall
    /\ now = 0
    /\ env = DevEnv

\* subscribe and unsubscribe requests, two in flight together
NextRelationship ==
    \E r \in Slots :
        \/ subscribeAccount(r)
        \/ subscribeWriteAuth(r)
        \/ subscribeWriteTarget(r)
        \/ Retire(r)

SpecRelationship == InitRegistered /\ [][NextRelationship]_vars

\* subscribe and unsubscribe requests one after the other, with the history
NextRetry ==
    \E r \in {"r1"} :
        \/ subscribeAccount(r)
        \/ subscribeWriteAuth(r)
        \/ subscribeWriteTarget(r)
        \/ RetireRecorded(r)

SpecRetry == InitRegistered /\ [][NextRetry]_vars

\* the video and comment routes, one request at a time, on a store of
\* registered accounts
NextVideo ==
    \E r \in {"r1"} :
        \/ addNewVideo(r)
        \/ mutateVideo(r)
        \/ findVideo(r)
        \/ writeVideo(r)
        \/ addNewComment(r)
        \/ deleteComment(r)
        \/ findComment(r)
        \/ removeComment(r)
        \/ Retire(r)

\* the ownership checks read no Account document: every account is stored
InitVideo ==
    /\ accounts = RegisteredAccounts(AccountIds)
    /\ accountsMade = MaxAccounts
    /\ tokens = IssuedTokens(AccountIds)
    /\ videos = {}
    /\ videosMade = 0
    /\ comments = {}
    /\ commentsMade = 0
    /\ req = [s \in Slots |-> Idle]
    /\ last = NoCall
    /\ now = 0
    /\ env = DevEnv

SpecVideo == InitVideo /\ [][NextVideo]_vars

\* register and login while the clock runs, under either configuration
InitLogin ==
    /\ accounts = {}
    /\ accountsMade = 0
    /\ tokens = {}
    /\ videos = {}
    /\ videosMade = 0
    /\ comments = {}
    /\ commentsMade = 0
    /\ req = [s \in Slots |-> Idle]
    /\ last = NoCall
    /\ now = 0
    /\ env \in Envs

NextLogin ==
    \/ Tick
    \/ \E r \in {"r1"} :
        \/ register(r)
        \/ login(r)
        \/ Retire(r)

SpecLogin == InitLogin /\ [][NextLogin]_vars

\* one request to any of the guarded routes while the clock runs, on a store
\* earlier requests have left: every account registered and logged in at time
\* 0, and possibly a video and a comment on it
InitGuard ==
    /\ accounts = RegisteredAccounts(AccountIds)
    /\ accountsMade = MaxAccounts
    /\ tokens = IssuedTokens(AccountIds)
    /\ \E owner \in AccountIds, made \in {0, 1} :
        /\ videosMade = made
        /\ videos = {NewVideo(v, owner, "t1") : v \in 1..made}
    /\ \E author \in AccountIds, made \in {0, 1} :
        /\ commentsMade = made
        /\ comments = {NewComment(c, author, 1) : c \in 1..made}
    /\ req = [s \in Slots |-> Idle]
    /\ last = NoCall
    /\ now = 0
    /\ env = DevEnv

NextGuard ==
    \/ Tick
    \/ \E r \in {"r1"} :
        \/ updateAccountInformations(r)
        \/ updateAccountWrite(r)
        \/ deleteSingleAccount(r)
        \/ deleteAccountWrite(r)
        \/ subscribeAccount(r)
        \/ subscribeWriteAuth(r)
        \/ subscribeWriteTarget(r)
        \/ addNewVideo(r)
        \/ mutateVideo(r)
        \/ findVideo(r)
        \/ writeVideo(r)
        \/ addNewComment(r)
        \/ deleteComment(r)
        \/ findComment(r)
        \/ removeComment(r)

SpecGuard == InitGuard /\ [][NextGuard]_vars

\* logins and account updates, one request at a time, on a store of
\* registered accounts none of which has logged in yet, while the clock runs
InitRoundTrip ==
    /\ accounts = RegisteredAccounts(AccountIds)
    /\ accountsMade = MaxAccounts
    /\ tokens = {}
    /\ videos = {}
    /\ videosMade = 0
    /\ comments = {}
    /\ commentsMade = 0
    /\ req = [s \in Slots |-> Idle]
    /\ last = NoCall
    /\ now = 0
    /\ env = DevEnv

NextRoundTrip ==
    \/ Tick
    \/ \E r \in {"r1"} :
        \/ login(r)
        \/ updateAccountInformations(r)
        \/ updateAccountWrite(r)
        \/ Retire(r)

SpecRoundTrip == InitRoundTrip /\ [][NextRoundTrip]_vars

\* account deletes, two requests in flight together, with the tokens of
\* earlier logins, while the clock runs
NextStateless ==
    \/ Tick
    \/ \E r \in Slots :
        \/ deleteSingleAccount(r)
        \/ deleteAccountWrite(r)
        \/ Retire(r)

SpecStateless == InitVideo /\ [][NextStateless]_vars

\* README's .env as it is documented: both lifetimes are the digits 36000000
ReadmeEnv ==
    [DevEnv EXCEPT !.JWT_EXPIRE = <<3, 6, 0, 0, 0, 0, 0, 0>>,
                   !.JWT_COOKIE_EXPIRE = <<3, 6, 0, 0, 0, 0, 0, 0>>]

\* register and login while the clock runs, under the documented .env
InitDocumented ==
    /\ accounts = {}
    /\ accountsMade = 0
    /\ tokens = {}
    /\ videos = {}
    /\ videosMade = 0
    /\ comments = {}
    /\ commentsMade = 0
    /\ req = [s \in Slots |-> Idle]
    /\ last = NoCall
    /\ now = 0
    /\ env = ReadmeEnv

SpecDocumented == InitDocumented /\ [][NextLogin]_vars

\* GET requests below /api/video while the clock runs, on a store earlier
\* requests have left
NextRouting ==
    \/ Tick
    \/ \E r \in {"r1"} :
        \/ getVideoRoute(r)
        \/ Retire(r)

SpecRouting == InitGuard /\ [][NextRouting]_vars

\* account deletes and new videos and comments, one request at a time, with
\* the tokens of earlier logins
NextOwned ==
    \E r \in {"r1"} :
        \/ deleteSingleAccount(r)
        \/ deleteAccountWrite(r)
        \/ addNewVideo(r)
        \/ addNewComment(r)
        \/ Retire(r)

SpecOwned == InitVideo /\ [][NextOwned]_vars

\* video updates and deletes, two requests in flight together, on a store
\* earlier requests have left
NextVideoRace ==
    \E r \in Slots :
        \/ mutateVideo(r)
        \/ findVideo(r)
        \/ writeVideo(r)

SpecVideoRace == InitGuard /\ [][NextVideoRace]_vars

\* registrations, logins and account updates that set a password, one
\* request at a time, from the empty store
NextPassword ==
    \E r \in {"r1"} :
        \/ register(r)
        \/ login(r)
        \/ updateAccountPassword(r)
        \/ updateAccountWrite(r)
        \/ Retire(r)

SpecPassword == InitAccount /\ [][NextPassword]_vars

\* the terminal responder, called with any error value
NextResponder ==
    \E r \in {"r1"} :
        \/ respondToError(r)
        \/ Retire(r)

SpecResponder == InitAccount /\ [][NextResponder]_vars

\* a .env that sets no JWT_SECRET_KEY: nothing reads the configuration
\* before the first login signs a token
NoKeyEnv == [DevEnv EXCEPT !.JWT_SECRET_KEY = ""]

\* logins and account updates on a store of registered accounts, with or
\* without a key in the configuration
InitLive ==
    /\ accounts = RegisteredAccounts(AccountIds)
    /\ accountsMade = MaxAccounts
    /\ tokens = {}
    /\ videos = {}
    /\ videosMade = 0
    /\ comments = {}
    /\ commentsMade = 0
    /\ req = [s \in Slots |-> Idle]
    /\ last = NoCall
    /\ now = 0
    /\ env \in {DevEnv, NoKeyEnv}

NextLive ==
    \E r \in {"r1"} :
        \/ login(r)
        \/ updateAccountInformations(r)
        \/ updateAccountWrite(r)
        \/ Retire(r)

\* the event loop runs the continuation of every await that has settled
SpecLive ==
    /\ InitLive
    /\ [][NextLive]_vars
    /\ \A r \in {"r1"} : WF_vars(updateAccountWrite(r))

-----------------------------------------------------------------------------
(* Properties of the subscription handlers *)

Exists(i) == \E d \in accounts : d._id = i
Doc(i) == CHOOSE d \in accounts : d._id = i

SubscribedTo(a, b) == Exists(a) /\ b \in Range(Doc(a).subscribedUsers)
SubscriberOf(a, b) == Exists(b) /\ a \in Range(Doc(b).subscribers)

Relationship(h) == h \in {"subscribe", "unsubscribe"}

\* C1: once a subscribe request of A with target B (both stored, distinct) has
\* been answered 200, B is in A's subscribedUsers and A is in B's subscribers;
\* once an unsubscribe request has been answered 200, neither is.
C1_SubscribeStoresBothSides ==
    \A r \in Slots :
        LET A == req[r].auth
            B == castObjectId(req[r].param)
        IN  (/\ req[r].pc = "done"
             /\ Relationship(req[r].h)
             /\ req[r].res.status = 200
             /\ A # B /\ Exists(A) /\ Exists(B))
            => IF req[r].h = "subscribe"
               THEN SubscribedTo(A, B) /\ SubscriberOf(A, B)
               ELSE ~SubscribedTo(A, B) /\ ~SubscriberOf(A, B)

Symmetric ==
    \A a \in accounts, b \in accounts :
        (b._id \in Range(a.subscribers)) <=> (a._id \in Range(b.subscribedUsers))

\* C2: whenever no subscribe or unsubscribe request is in flight, B is in
\* A.subscribers exactly when A is in B.subscribedUsers, whatever the order in
\* which the writes of concurrent requests landed.
C2_SymmetricWhenQuiet ==
    (\A r \in Slots : ~InFlight(r)) => Symmetric

\* a subscribe and an unsubscribe of the same pair have both been answered 200,
\* and a write of one landed between the two writes of the other
C2_Witness ==
    /\ \A r \in Slots : ~InFlight(r)
    /\ \E r \in Slots, s \in Slots :
        /\ req[r].pc = "done" /\ req[r].h = "subscribe" /\ req[r].res.status = 200
        /\ req[s].pc = "done" /\ req[s].h = "unsubscribe" /\ req[s].res.status = 200
        /\ req[r].auth = req[s].auth
        /\ castObjectId(req[r].param) = castObjectId(req[s].param)
        /\ req[r].auth # castObjectId(req[r].param)
        /\ Exists(req[r].auth) /\ Exists(castObjectId(req[r].param))
        /\ req[r].raced

\* C3: no stored account is listed in its own subscribers or subscribedUsers.
C3_NoSelfMembership ==
    \A d \in accounts :
        /\ d._id \notin Range(d.subscribers)
        /\ d._id \notin Range(d.subscribedUsers)

\* a subscribe request whose path holds another text of the caller's own id
\* has been answered 200, the caller's account being stored
C3_Witness ==
    \E r \in Slots :
        /\ req[r].pc = "done" /\ req[r].h = "subscribe" /\ req[r].res.status = 200
        /\ castObjectId(req[r].param) = req[r].auth
        /\ Exists(req[r].auth)

\* C4: a subscribe or unsubscribe request whose target is the caller's own
\* account goes no further than the check: it is answered 400 and has issued
\* no write.
C4_SelfRequestRefused ==
    \A r \in Slots :
        (/\ req[r].pc # "idle"
         /\ Relationship(req[r].h)
         /\ castObjectId(req[r].param) = req[r].auth)
        => /\ req[r].pc = "done"
           /\ req[r].res.status = 400
           /\ req[r].writes = 0

NoDuplicates(s) == \A i \in DOMAIN s, j \in DOMAIN s : s[i] = s[j] => i = j

SameCall(r, h) ==
    /\ req[r].h = h
    /\ last.h = h
    /\ last.auth = req[r].auth
    /\ last.target = castObjectId(req[r].param)
    /\ req[r].auth # castObjectId(req[r].param)

\* C5: subscribe(A,B) run again right after subscribe(A,B) was answered 200 is
\* answered 200 too unless the store fails, the two writes of a subscribe
\* change nothing when applied a second time, and no array holds an id twice.
C5_SubscribeIdempotent ==
    /\ \A r \in Slots :
        (/\ req[r].pc = "done"
         /\ SameCall(r, "subscribe")
         /\ last.status = 200
         /\ req[r].res.message # StoreError.message)
        => req[r].res.status = 200 /\ req[r].res.success
    /\ \A A \in AccountIds, B \in AccountIds :
        A # B =>
            LET once == subscribeWrites(accounts, "subscribe", A, IdText(B))
            IN  /\ subscribeWrites(once, "subscribe", A, IdText(B)) = once
                /\ \A d \in once :
                    NoDuplicates(d.subscribers) /\ NoDuplicates(d.subscribedUsers)
    /\ \A d \in accounts :
        NoDuplicates(d.subscribers) /\ NoDuplicates(d.subscribedUsers)

\* the second of two subscribe(A,B) calls in a row has been answered 200
C5_Witness ==
    \E r \in Slots :
        /\ req[r].pc = "done"
        /\ SameCall(r, "subscribe")
        /\ last.status = 200
        /\ req[r].res.status = 200
        /\ Exists(req[r].auth) /\ Exists(castObjectId(req[r].param))

\* C6: a subscribe or unsubscribe whose second write fails after the first
\* landed is answered with an error, and the same call run again to a 200
\* leaves the pair symmetric: B in A.subscribedUsers exactly when A in
\* B.subscribers.
C6_PartialFailureRepaired ==
    \A r \in Slots :
        /\ (req[r].pc = "done" /\ Relationship(req[r].h) /\ req[r].writes = 1)
            => req[r].res.status >= 400 /\ ~req[r].res.success
        /\ (/\ req[r].pc = "done"
            /\ (SameCall(r, "subscribe") \/ SameCall(r, "unsubscribe"))
            /\ last.writes = 1
            /\ req[r].res.status = 200
            /\ Exists(req[r].auth) /\ Exists(castObjectId(req[r].param)))
            => (SubscribedTo(req[r].auth, castObjectId(req[r].param))
                <=> SubscriberOf(req[r].auth, castObjectId(req[r].param)))

\* a subscribe failed at its second write and was then run again to a 200
C6_Witness ==
    \E r \in Slots :
        /\ req[r].pc = "done"
        /\ SameCall(r, "subscribe")
        /\ last.writes = 1 /\ last.status = 500
        /\ req[r].res.status = 200
        /\ Exists(req[r].auth) /\ Exists(castObjectId(req[r].param))

-----------------------------------------------------------------------------
(* Properties of the video and comment handlers *)

\* slot r takes the step that follows its lookup of the target
Looked(r, pc) == req[r].pc = pc /\ req'[r].pc # pc

StoreFailed(res) == res.message = StoreError.message

\* the answer of each handler to a caller who is not the owner
NotOwnerResponse(h) ==
    IF h = "deleteComment" THEN Json(400, FALSE, "You cannot delete this comment.")
    ELSE customErrorHandler(CustomError(notOwnerMessage(h), 400))

\* C7: when an update or delete request finds the video stored under an owner
\* other than its caller, the request ends there with a non-success answer
\* (400 unless the lookup itself failed) and the Video collection is as before.
C7_ForeignVideoUntouched ==
    [][\A r \in Slots :
        (/\ Looked(r, "findVideo")
         /\ \E v \in videos :
                v._id = castObjectId(req[r].param) /\ v.account_id # req[r].auth)
        => /\ videos' = videos
           /\ req'[r].pc = "done"
           /\ ~req'[r].res.success
           /\ req'[r].writes = 0
           /\ ~StoreFailed(req'[r].res) => req'[r].res.status = 400]_vars

\* an update of a stored video by another account than its owner was answered 400
C7_Witness ==
    \E r \in Slots, v \in videos :
        /\ req[r].pc = "done" /\ req[r].h = "updateVideo"
        /\ v._id = castObjectId(req[r].param) /\ v.account_id # req[r].auth
        /\ req[r].res = NotOwnerResponse("updateVideo")

\* C8: the account_id of a video is the same in every state in which the
\* video is stored.
C8_VideoOwnerImmutable ==
    [][\A v \in videos, w \in videos' :
        v._id = w._id => v.account_id = w.account_id]_vars

\* C9: when a delete request finds the comment stored under an owner other
\* than its caller, it is answered 400 with success false (unless the lookup
\* itself failed) and the comment stays; and a comment leaves the collection
\* only in the delete step of a request of its owner.
C9_ForeignCommentKept ==
    [][/\ \A r \in Slots :
            (/\ Looked(r, "findComment")
             /\ \E c \in comments :
                    c._id = castObjectId(req[r].param) /\ c.account_id # req[r].auth)
            => /\ comments' = comments
               /\ req'[r].pc = "done"
               /\ ~req'[r].res.success
               /\ ~StoreFailed(req'[r].res) =>
                    req'[r].res = Json(400, FALSE, "You cannot delete this comment.")
       /\ \A c \in comments :
            c \notin comments' =>
                \E r \in Slots :
                    /\ req[r].pc = "deleteComment" /\ req'[r].pc = "done"
                    /\ req[r].auth = c.account_id
                    /\ castObjectId(req[r].param) = c._id]_vars

\* a delete of a stored comment by another account than its owner was answered 400
C9_Witness ==
    \E r \in Slots, c \in comments :
        /\ req[r].pc = "done" /\ req[r].h = "deleteComment"
        /\ c._id = castObjectId(req[r].param) /\ c.account_id # req[r].auth
        /\ req[r].res = Json(400, FALSE, "You cannot delete this comment.")

\* C10: when a video update, video delete or comment delete looks up a
\* well-formed id under which nothing is stored, the request ends there with a
\* non-success answer that is not the answer given to a caller who is not the
\* owner.
C10_MissingTargetFails ==
    [][\A r \in Slots :
        (\/ /\ Looked(r, "findVideo")
            /\ findById(videos, castObjectId(req[r].param)) = {}
         \/ /\ Looked(r, "findComment")
            /\ findById(comments, castObjectId(req[r].param)) = {})
        => /\ req'[r].pc = "done"
           /\ ~req'[r].res.success
           /\ req'[r].res.status >= 400
           /\ req'[r].res # NotOwnerResponse(req[r].h)]_vars

-----------------------------------------------------------------------------
(* Properties of the account self-service handlers *)

AccountMutation(h) == h \in {"updateAccount", "deleteAccount"}

\* C11: an account update or delete request that the guard admitted is
\* answered 500 with success false and has issued no write when the account of
\* its path is not the caller's, and is answered 200 with success true when it
\* is the caller's own (unless the store call fails).
C11_OnlyOwnAccount ==
    \A r \in Slots :
        (/\ req[r].pc = "done"
         /\ AccountMutation(req[r].h)
         /\ Admitted(req[r]))
        => IF castObjectId(req[r].param) # req[r].auth
           THEN /\ req[r].res.status = 500
                /\ ~req[r].res.success
                /\ req[r].writes = 0
           ELSE StoreFailed(req[r].res)
                \/ (req[r].res.status = 200 /\ req[r].res.success)

-----------------------------------------------------------------------------
(* Properties of the access guard *)

\* the routes declared with hasAccess before their handler
GuardedRoute(h) ==
    h \in {"updateAccount", "deleteAccount", "subscribe", "unsubscribe",
           "addVideo", "updateVideo", "deleteVideo", "addComment", "deleteComment"}

\* slot r holds a request to a guarded route
Guarding(r) == req[r].pc # "idle" /\ GuardedRoute(req[r].h)

\* the payload a token carries
Claim(token) == [id |-> token.id, first_name |-> token.first_name]

\* the cookie holds a token login issued, signed with the configured key and
\* not yet expired at the time given
Verified(cookie, time) ==
    /\ cookie.kind = "string"
    /\ cookie.token \in tokens
    /\ cookie.token.key = env.JWT_SECRET_KEY
    /\ time \div 1000 < cookie.token.exp

StoreUnchanged ==
    /\ accounts' = accounts
    /\ videos' = videos
    /\ comments' = comments

\* C12: a request to a guarded route either was admitted by the guard on a
\* verified, unexpired token whose claim it carries, or ended at the guard: one
\* call of next(err), a non-success answer, no write and the store as before;
\* only an admitted request takes a further step, and the store changes only
\* in a step of an admitted request.
C12_GuardFailsClosed ==
    [][/\ \A r \in Slots :
            (req[r].pc = "idle" /\ req'[r].pc # "idle" /\ GuardedRoute(req'[r].h))
            => IF Admitted(req'[r])
               THEN /\ Verified(req'[r].cookie, now)
                    /\ req'[r].access.account = Claim(req'[r].cookie.token)
                    /\ req'[r].auth = castObjectId(req'[r].cookie.token.id)
               ELSE /\ req'[r].pc = "done"
                    /\ req'[r].nexts = 1 /\ req'[r].sent = 0
                    /\ ~req'[r].res.success
                    /\ req'[r].writes = 0
                    /\ StoreUnchanged
       /\ \A r \in Slots :
            (Guarding(r) /\ req'[r] # req[r]) => Admitted(req[r])
       /\ ~StoreUnchanged =>
            \E r \in Slots : GuardedRoute(req'[r].h) /\ Admitted(req'[r])]_vars

\* the delete of a stored video, asked with the expired token of its owner,
\* has ended at the guard
C12_Witness ==
    \E r \in Slots, v \in videos :
        /\ req[r].pc = "done" /\ req[r].h = "deleteVideo"
        /\ ~Admitted(req[r])
        /\ v._id = castObjectId(req[r].param)
        /\ req[r].cookie.kind = "string"
        /\ req[r].cookie.token \in tokens
        /\ castObjectId(req[r].cookie.token.id) = v.account_id
        /\ req[r].at \div 1000 >= req[r].cookie.token.exp

\* C13: a request to a guarded route without the cookie is answered 401, one
\* whose cookie value is not a string is answered 400, both with success false
\* and a message.
C13_MissingOrMalformedCookie ==
    \A r \in Slots :
        Guarding(r) =>
            /\ req[r].cookie.kind = "absent" =>
                /\ req[r].pc = "done"
                /\ req[r].res =
                    Json(401, FALSE, "Please provide a token or authenticate.")
            /\ req[r].cookie.kind = "object" =>
                /\ req[r].pc = "done"
                /\ req[r].res = Json(400, FALSE, "Invalid token format.")

\* a request with a cookie value that is no string has been answered
C13_Witness ==
    \E r \in Slots :
        Guarding(r) /\ req[r].cookie.kind = "object" /\ req[r].res.status = 400

\* C14: a request to a guarded route whose token fails verification (signed
\* with another key, or expired) is answered with a status from 400 to 499 and
\* success false.
C14_TokenFailureIsClientError ==
    \A r \in Slots :
        (/\ Guarding(r)
         /\ req[r].cookie.kind = "string"
         /\ \/ req[r].cookie.token.key # env.JWT_SECRET_KEY
            \/ req[r].at \div 1000 >= req[r].cookie.token.exp)
        => /\ req[r].pc = "done"
           /\ ~req[r].res.success
           /\ req[r].res.status >= 400
           /\ req[r].res.status < 500

\* C16: a token signed with the configured key and presented at or after its
\* expiry fails with TokenExpiredError, a token signed with another key fails
\* with JsonWebTokenError, and neither request is admitted.
C16_TokenFailureKinds ==
    \A r \in Slots :
        (Guarding(r) /\ req[r].cookie.kind = "string") =>
            /\ (/\ req[r].cookie.token.key = env.JWT_SECRET_KEY
                /\ req[r].at \div 1000 >= req[r].cookie.token.exp)
                => /\ req[r].access.err = TokenExpiredError
                   /\ ~Admitted(req[r])
            /\ req[r].cookie.token.key # env.JWT_SECRET_KEY
                => /\ req[r].access.err.name = "JsonWebTokenError"
                   /\ ~Admitted(req[r])

\* a token with the right signature was presented at its expiry and refused
C16_Witness ==
    \E r \in Slots :
        /\ Guarding(r)
        /\ req[r].cookie.kind = "string"
        /\ req[r].cookie.token.key = env.JWT_SECRET_KEY
        /\ req[r].at \div 1000 = req[r].cookie.token.exp
        /\ req[r].access.err.name = "TokenExpiredError"

\* C15: a token a login has issued, presented before its expiry to a guarded
\* route, is admitted with exactly the id and first name it was issued with;
\* and the token a successful login sends carries the id and the stored first
\* name of the account that logged in.
C15_TokenRoundTrip ==
    \A r \in Slots :
        /\ (/\ Guarding(r)
            /\ req[r].cookie.kind = "string"
            /\ req[r].cookie.token \in tokens
            /\ req[r].at \div 1000 < req[r].cookie.token.exp)
            => /\ Admitted(req[r])
               /\ req[r].access.account = Claim(req[r].cookie.token)
        /\ (req[r].pc = "done" /\ req[r].h = "login" /\ req[r].res.status = 200)
            => /\ req[r].res.access_token \in tokens
               /\ req[r].res.access_token.id = IdText(req[r].auth)
               /\ \E d \in accounts :
                    /\ d._id = req[r].auth
                    /\ d.first_name = req[r].res.access_token.first_name

\* a token issued after the clock had advanced was admitted before its expiry,
\* the first name stored for its account having changed since the login
C15_Witness ==
    \E r \in Slots, d \in accounts :
        /\ Guarding(r) /\ Admitted(req[r])
        /\ req[r].cookie.token \in tokens
        /\ req[r].cookie.token.iat > 0
        /\ d._id = req[r].auth
        /\ d.first_name # req[r].access.account.first_name

\* C17: two requests that present the same cookie at the same time leave the
\* guard with the same outcome and the same attached claim, whether or not the
\* token's account is stored; a verified token is admitted with its claim also
\* when its account has been deleted, and a request the guard refused has
\* issued no write.
C17_GuardIgnoresStore ==
    /\ \A r \in Slots, s \in Slots :
        (/\ Guarding(r) /\ Guarding(s)
         /\ req[r].cookie = req[s].cookie
         /\ req[r].at = req[s].at)
        => /\ req[r].access = req[s].access
           /\ req[r].auth = req[s].auth
    /\ \A r \in Slots :
        /\ (Guarding(r) /\ Verified(req[r].cookie, req[r].at))
            => Admitted(req[r]) /\ req[r].access.account = Claim(req[r].cookie.token)
        /\ (Guarding(r) /\ ~Admitted(req[r])) => req[r].writes = 0

\* two requests presented the same token at the same time, one while the
\* token's account was stored and one after it had been deleted; both were
\* admitted
C17_Witness ==
    \E r \in Slots, s \in Slots :
        /\ Guarding(r) /\ Guarding(s)
        /\ req[r].cookie = req[s].cookie
        /\ req[r].at = req[s].at
        /\ req[r].known /\ ~req[s].known
        /\ Admitted(req[r]) /\ Admitted(req[s])
        /\ ~Exists(req[s].auth)

-----------------------------------------------------------------------------
(* Properties of register and login *)

\* the stored account a login request names, if its password is the one given
Matches(d, body) ==
    /\ d.username = body.emailOrUsername
    /\ body.password \notin {"", NotAString}
    /\ d.password = <<"bcrypt", body.password>>

WrongPassword(slot) ==
    /\ slot.pc = "done" /\ slot.h = "login"
    /\ slot.body.password \notin {"", NotAString}
    /\ \E d \in accounts :
        /\ d.username = slot.body.emailOrUsername
        /\ d.password # <<"bcrypt", slot.body.password>>

\* C19: a login for a stored account with a password that does not match is
\* answered 400 with success false through one call of next(err), by the
\* handler's own check of the comparison's result; the response holds no token
\* and no cookie and no token is issued (unless the lookup fails).
C19_WrongPasswordRefused ==
    [][\A r \in Slots :
        (req[r].pc = "idle" /\ WrongPassword(req'[r]))
        => /\ tokens' = tokens
           /\ \/ StoreFailed(req'[r].res)
              \/ /\ req'[r].res = Json(400, FALSE, "Your password is not correct.")
                 /\ req'[r].nexts = 1
                 /\ req'[r].sent = 0]_vars

\* a login with a wrong password for a stored account was answered 400
C19_Witness ==
    \E r \in Slots :
        /\ WrongPassword(req[r])
        /\ req[r].res.status = 400

\* C20: in every request next(err) is called at most once and at most one
\* response is sent: the calls of next(err) and the responses the handler sends
\* itself number one at most.
C20_OneAnswer ==
    \A r \in Slots : req[r].nexts + req[r].sent <= 1

-----------------------------------------------------------------------------
(* Properties of the error path *)

\* C21: every request is answered: whenever a step of a handler fails, the
\* failure of _sendToken's signing included, the error reaches the terminal
\* responder; no request is left open without a response and without a call
\* of next(err) once its handler has returned.
C21_FailureReachesResponder ==
    \A r \in Slots :
        req[r].pc = "abandoned" => req[r].nexts > 0 \/ req[r].sent > 0

\* C21, as a property of the whole run: a request in flight is answered
C21_EventuallyAnswered ==
    \A r \in Slots : InFlight(r) ~> (req[r].pc = "done")

Hashing(err) == err.name = "Error"

\* C22 (as the code has it): a failure of the hashing helper or an unavailable
\* store is answered with 500 and {success: false, message}; a duplicate key
\* (registering a username that is already stored) is answered with 400 and
\* {success: false, message: "Duplicate Key Found: Check Your Input"}.
C22_FaultStatus ==
    \A r \in Slots :
        req[r].nexts > 0 =>
            /\ Hashing(req[r].thrown) \/ req[r].thrown = StoreError =>
                    req[r].res = Json(500, FALSE, req[r].thrown.message)
            /\ req[r].thrown = DuplicateKeyError =>
                    req[r].res =
                        Json(400, FALSE, "Duplicate Key Found: Check Your Input")

\* a registration of a stored username has been answered, and a hashing
\* failure has
C22_Witness ==
    /\ req["r1"].h = "register"
    /\ req["r1"].thrown = DuplicateKeyError
    /\ req["r1"].res.status = 400
    /\ \E d \in accounts : d.username = req["r1"].body.username

\* C22 as stated: a hashing failure, an unavailable store and a duplicate key
\* are all answered with 500 and success false.
C22_FaultsAre500 ==
    \A r \in Slots :
        /\ req[r].nexts > 0
        /\ \/ Hashing(req[r].thrown)
           \/ req[r].thrown \in {StoreError, DuplicateKeyError}
        => req[r].res.status = 500 /\ ~req[r].res.success

\* C23: for every error value that reaches the terminal responder the body has
\* success false and the status is no 2xx: 400 for a SyntaxError, a
\* ValidationError and code 11000, otherwise the error's own status when it
\* has one, otherwise 500.
C23_ResponderStatus ==
    \A r \in Slots :
        req[r].nexts > 0 =>
            LET err == req[r].thrown
            IN  /\ ~req[r].res.success
                /\ req[r].res.status \notin 200..299
                /\ req[r].res.status =
                        IF \/ err.name \in {"SyntaxError", "ValidationError"}
                           \/ err.code = 11000
                        THEN 400
                        ELSE IF err.status # 0 THEN err.status
                        ELSE 500

\* an error with a name of the 400 kind and another status of its own has
\* been answered, and so has one with neither
C23_Witness ==
    /\ req["r1"].nexts = 1
    /\ req["r1"].thrown.name = "ValidationError"
    /\ req["r1"].thrown.status = 404
    /\ req["r1"].res.status = 400

-----------------------------------------------------------------------------
(* Properties of the documented configuration *)

\* ten hours, in seconds
TenHours == 10 * 60 * 60

\* C24: under the documented configuration a token issued at time t carries
\* exp = t + 10 hours, the cookie that transports it expires at the same
\* instant (to the second), and the token presented more than ten hours after
\* its issue is rejected as expired.
C24_TenHourToken ==
    \A r \in Slots :
        req[r].h = "login" /\ req[r].sent > 0 /\ env = ReadmeEnv =>
            LET token == req[r].res.access_token
            IN  /\ token.exp = token.iat + TenHours
                /\ req[r].res.cookie.expires \div 1000 = token.exp
                /\ verify(token, env.JWT_SECRET_KEY,
                          (token.iat + TenHours + 1) * 1000).err = TokenExpiredError

-----------------------------------------------------------------------------
(* Properties of the video router *)

\* C25: a GET request to /api/video/find/random is dispatched to
\* getRandomVideos and answered with a sample of the stored videos; the
\* route /find/:accountId does not capture it with accountId = "random".
C25_RandomRoute ==
    \A r \in Slots :
        req[r].pc = "done" /\ req[r].path = <<Word("find"), Word("random")>> =>
            /\ req[r].h = "getRandomVideos"
            /\ req[r].nexts = 0 =>
                    req[r].res.status = 200 /\ req[r].res.data \subseteq videos

-----------------------------------------------------------------------------
(* Properties of the accounts a request does not own *)

\* the only change a request of account y may make to another account x: y
\* added to or removed from x.subscribers by a subscribe or unsubscribe whose
\* target is x
SubscriberChange(x, after, rq) ==
    /\ rq.h \in {"subscribe", "unsubscribe"}
    /\ castObjectId(rq.param) = x._id
    /\ \E subscribers \in {AddToSet(x.subscribers, rq.auth),
                            Pull(x.subscribers, rq.auth)} :
        [x EXCEPT !.subscribers = subscribers] \in after

-----------------------------------------------------------------------------
(* Properties of the references between documents *)

\* C27: every id stored in an account's subscribers or subscribedUsers is the
\* id of an account that is stored now; a subscribe request whose target id
\* matches no stored account adds nothing and does not report success; a
\* deleted account is in no other account's arrays.
C27_SubscriptionsRefer ==
    /\ \A d \in accounts :
        \A i \in Range(d.subscribers) \cup Range(d.subscribedUsers) : Exists(i)
    /\ \A r \in Slots :
        /\ req[r].pc = "done"
        /\ req[r].h = "subscribe"
        /\ Admitted(req[r])
        /\ ~Exists(castObjectId(req[r].param))
        => ~(req[r].res.status = 200 /\ req[r].res.success)

\* C28: every stored video and every stored comment has an account_id of an
\* account that is stored now: deleting an account leaves none of its videos
\* or comments behind, and a token issued before its account was deleted
\* creates no video or comment afterwards.
C28_OwnersExist ==
    /\ \A v \in videos : Exists(v.account_id)
    /\ \A c \in comments : Exists(c.account_id)

\* C28, its second half alone: a request that found its token's account
\* deleted creates nothing.
C28_DeletedAccountCreatesNothing ==
    \A r \in Slots :
        /\ req[r].pc = "done"
        /\ req[r].h \in {"addVideo", "addComment"}
        /\ Admitted(req[r])
        /\ ~req[r].known
        => req[r].writes = 0

-----------------------------------------------------------------------------
(* Properties of concurrent requests on one video *)

\* request r applies its findByIdAndUpdate or findByIdAndDelete in this step
Writes(r) ==
    /\ req[r].pc = "writeVideo"
    /\ req'[r].pc = "done"
    /\ req'[r].writes = 1

\* C29: under every interleaving of update and delete requests on one video,
\* a write is applied by a request whose authenticated account is the owner
\* the video has stored at the moment of the write, and an update answered
\* 200 with success true carries the updated video, not null.
C29_WriteByOwnerNow ==
    [][\A r \in Slots :
        Writes(r) =>
            /\ \A v \in findById(videos, castObjectId(req[r].param)) :
                    v.account_id = req[r].auth
            /\ req[r].h = "updateVideo" /\ req'[r].res.success =>
                    req'[r].res.data # {}]_vars

-----------------------------------------------------------------------------
(* Properties of the stored password *)

\* C30: the stored password of every account is a digest the hashing helper
\* produced, and a login with the plaintext most recently set for the account
\* (at registration or by an account update whose body has a password)
\* succeeds.  Every password set here is the one plaintext of Passwords.
C30_PasswordIsDigest ==
    /\ \A d \in accounts :
        d.password \in {hashUserPassword(p).value : p \in Passwords}
    /\ \A r \in Slots :
        /\ req[r].pc = "done"
        /\ req[r].h = "login"
        /\ req[r].body.password \in Passwords
        /\ \E d \in accounts : d.username = req[r].body.emailOrUsername
        /\ ~StoreFailed(req[r].res)
        => req[r].res.status = 200 /\ req[r].res.success

=============================================================================
